---- MODULE Spec2Model ----
(***************************************************************************)
(* Dekker's algorithm as implemented in dekker.cpp.                        *)
(*                                                                         *)
(* Two threads run thread_function(0) and thread_function(1).  Every       *)
(* seq_cst load or store of flag[0], flag[1], turn, shared_counter and     *)
(* in_critical_section is one atomic step of the thread that performs it;  *)
(* the threads are interleaved arbitrarily.  A program counter value       *)
(* "Lnn" means that the thread's next shared-memory operation is the one   *)
(* on line nn of dekker.cpp.  The calls of print() only produce output     *)
(* and are not modelled.                                                   *)
(***************************************************************************)
EXTENDS Integers, FiniteSets, Sequences, TLC

NUM_ITERATIONS == 5

Threads == {0, 1}

VARIABLES
    flag,                 \* std::atomic<bool> flag[2]
    turn,                 \* std::atomic<int> turn
    shared_counter,       \* std::atomic<int> shared_counter
    in_critical_section,  \* std::atomic<int> in_critical_section
    pc,                   \* per thread: line of its next shared-memory operation
    i,                    \* per thread: loop variable i of thread_function
    old_val,              \* per thread: local old_val of thread_function
    violated,             \* TRUE once line 106 has written to std::cerr
    result,               \* what main reports on lines 168-172
    peerAt,               \* history: where a thread stood in dekker_lock when
                          \* its peer last completed dekker_unlock
    hist,                 \* history: per thread, what it has done so far in
                          \* its current call of dekker_lock and in its run
    misuse                \* calls of dekker_unlock that thread_function never
                          \* makes: their argument 'other' and their number

vars == <<flag, turn, shared_counter, in_critical_section, pc, i, old_val,
          violated, result, peerAt, hist, misuse>>

\* int other = 1 - id
Other(id) == 1 - id

\* Positions inside dekker_lock (called, not yet returned).
LockPcs == {"L49", "L52", "L58", "L59", "L60", "L61", "L64", "L69"}

\* Positions between the return of dekker_lock and the final store of
\* dekker_unlock.
SectionPcs == {"L104", "L110", "L116", "L119", "L83", "L84"}

\* Where the peer's flag is raised and it is not committed to a back-off.
OuterLoopPcs == {"L52", "L58", "L59"}

InLock(id) == pc[id] \in LockPcs

InSection(id) == pc[id] \in SectionPcs

Finished(id) == pc[id] = "L130"

\* Positions inside a call of dekker_unlock that thread_function does not
\* make (lines 83 and 84 of such a call).
MisusePcs == {"M83", "M84"}

\* How many such calls a run makes at most.
MaxMisuse == 1

\* The history kept per thread.
\*   stage     since the thread last read turn # id on line 59: "observed",
\*             then "turn" once the peer has executed line 83, then
\*             "unlocked" once the peer has executed line 84; "none" before
\*   reraised  the thread has executed line 69 since that read
\*   lastRead  the value of flag[other] the thread read last since it last
\*             stored flag[id] = true ("none": no read since)
\*   backoffs  executions of line 61 in the current call of dekker_lock
\*   locks     returns of dekker_lock so far
\*   unlocks   returns of dekker_unlock so far
\*   bypassAny peer's returns from dekker_lock since the thread was first
\*             inside dekker_lock with its flag raised and the turn in this
\*             call (-1: it has not been)
\*   bypassOuter  the same, counted from the first such state with the thread
\*             on line 52, 58 or 59
HistType ==
    [stage : {"none", "observed", "turn", "unlocked"},
     reraised : BOOLEAN,
     lastRead : {"none", "true", "false"},
     backoffs : 0..(NUM_ITERATIONS + 1),
     locks : 0..(NUM_ITERATIONS + 1),
     unlocks : 0..(NUM_ITERATIONS + 1),
     bypassAny : -1..(NUM_ITERATIONS + 1),
     bypassOuter : -1..(NUM_ITERATIONS + 1)]

HistInit ==
    [stage |-> "none", reraised |-> FALSE, lastRead |-> "none", backoffs |-> 0,
     locks |-> 0, unlocks |-> 0, bypassAny |-> -1, bypassOuter |-> -1]

TypeOK ==
    /\ flag \in [Threads -> BOOLEAN]
    /\ turn \in Threads
    /\ shared_counter \in 0..(2 * NUM_ITERATIONS)
    /\ in_critical_section \in 0..2
    /\ pc \in [Threads -> LockPcs \cup SectionPcs \cup MisusePcs
                              \cup {"L97", "L127", "L130"}]
    /\ i \in [Threads -> 0..NUM_ITERATIONS]
    /\ old_val \in [Threads -> 0..(2 * NUM_ITERATIONS)]
    /\ violated \in BOOLEAN
    /\ result \in {"running", "verified", "error"}
    /\ peerAt \in [Threads -> LockPcs \cup {"none"}]
    /\ hist \in [Threads -> HistType]
    /\ misuse \in [other : [Threads -> Threads], ret : [Threads -> {"L97", "L127"}],
                   calls : 0..MaxMisuse]

Init ==
    /\ flag = [t \in Threads |-> FALSE]
    /\ turn = 0
    /\ shared_counter = 0
    /\ in_critical_section = 0
    /\ pc = [t \in Threads |-> "L97"]
    /\ i = [t \in Threads |-> 0]
    /\ old_val = [t \in Threads |-> 0]
    /\ violated = FALSE
    /\ result = "running"
    /\ peerAt = [t \in Threads |-> "none"]
    /\ hist = [t \in Threads |-> HistInit]
    /\ misuse = [other |-> [t \in Threads |-> Other(t)],
                 ret |-> [t \in Threads |-> "L97"], calls |-> 0]

\* Thread id is inside dekker_lock with its flag raised and the turn.
HoldsTurnRaised(id) == InLock(id) /\ flag[id] /\ turn = id

\* The same with the thread on line 52, 58 or 59.
HoldsTurnOuter(id) == pc[id] \in OuterLoopPcs /\ flag[id] /\ turn = id

\* History: the bypass counts start at 0 in the first state of a call of
\* dekker_lock in which the thread holds the turn with its flag raised.
HistBypass(h) ==
    [t \in Threads |->
        [h[t] EXCEPT
            !.bypassAny = IF @ = -1 /\ HoldsTurnRaised(t)' THEN 0 ELSE @,
            !.bypassOuter = IF @ = -1 /\ HoldsTurnOuter(t)' THEN 0 ELSE @]]

\* History of line 49: a new call of dekker_lock has stored the flag.
HistRaise(id) ==
    HistBypass([hist EXCEPT ![id] =
        [@ EXCEPT !.stage = "none", !.reraised = FALSE, !.lastRead = "none",
                  !.backoffs = 0]])

\* History of a read of flag[other] (lines 52 and 58) that does not end the
\* call.
HistRead(id) ==
    [hist EXCEPT ![id].lastRead = IF flag[Other(id)] THEN "true" ELSE "false"]

\* History of the return of dekker_lock; the peer's bypass counts go up.
HistReturn(id, h) ==
    [h EXCEPT ![id] = [@ EXCEPT !.locks = @ + 1, !.bypassAny = -1,
                                !.bypassOuter = -1],
              ![Other(id)] =
                  [@ EXCEPT !.bypassAny = IF @ >= 0 THEN @ + 1 ELSE @,
                            !.bypassOuter = IF @ >= 0 THEN @ + 1 ELSE @]]

\* History of the read of turn on line 59.
HistTurnRead(id) ==
    IF turn # id
      THEN [hist EXCEPT ![id] = [@ EXCEPT !.stage = "observed",
                                          !.reraised = FALSE]]
      ELSE hist

\* History of line 61.
HistLower(id) ==
    [hist EXCEPT ![id].backoffs = @ + 1]

\* History of line 69.
HistReraise(id) ==
    HistBypass([hist EXCEPT ![id] = [@ EXCEPT !.reraised = TRUE,
                                              !.lastRead = "none"]])

\* History of line 83 when it stores the peer's identity.
HistTurnStored(id) ==
    HistBypass([hist EXCEPT ![Other(id)].stage =
                   IF @ = "observed" THEN "turn" ELSE @])

\* History of the return of dekker_unlock.
HistUnlocked(id, h) ==
    [h EXCEPT ![id].unlocks = @ + 1]

\* History of line 84 when it lowers the flag.
HistFlagLowered(id) ==
    [hist EXCEPT ![Other(id)].stage = IF @ = "turn" THEN "unlocked" ELSE @]

\* Variant of LoopTest that runs one iteration too many.
LoopTest_OffByOne(id) ==
    /\ pc[id] = "L97"
    /\ pc' = [pc EXCEPT ![id] = IF i[id] <= NUM_ITERATIONS THEN "L49" ELSE "L130"]
    /\ UNCHANGED <<flag, turn, shared_counter, in_critical_section, i, old_val,
                   violated, result, peerAt>>
    /\ UNCHANGED <<hist, misuse>>

\* for (int i = 0; i < NUM_ITERATIONS; ...): the loop test.
LoopTest(id) ==
    /\ pc[id] = "L97"
    /\ pc' = [pc EXCEPT ![id] = IF i[id] < NUM_ITERATIONS THEN "L49" ELSE "L130"]
    /\ UNCHANGED <<flag, turn, shared_counter, in_critical_section, i, old_val,
                   violated, result, peerAt>>
    /\ UNCHANGED <<hist, misuse>>

\* Variant of LockRaise that forgets to declare intent.
LockRaise_NoStore(id) ==
    /\ pc[id] = "L49"
    /\ pc' = [pc EXCEPT ![id] = "L52"]
    /\ UNCHANGED <<flag, turn, shared_counter, in_critical_section, i, old_val,
                   violated, result, peerAt>>
    /\ hist' = HistRaise(id)
    /\ UNCHANGED misuse

\* dekker_lock: flag[id].store(true)
LockRaise(id) ==
    /\ pc[id] = "L49"
    /\ flag' = [flag EXCEPT ![id] = TRUE]
    /\ pc' = [pc EXCEPT ![id] = "L52"]
    /\ UNCHANGED <<turn, shared_counter, in_critical_section, i, old_val,
                   violated, result, peerAt>>
    /\ hist' = HistRaise(id)
    /\ UNCHANGED misuse

\* dekker_lock: bool contention = flag[other].load(); only printed.
LockContention(id) ==
    /\ pc[id] = "L52"
    /\ pc' = [pc EXCEPT ![id] = "L58"]
    /\ UNCHANGED <<flag, turn, shared_counter, in_critical_section, i, old_val,
                   violated, result, peerAt>>
    /\ hist' = HistRead(id)
    /\ UNCHANGED misuse

\* Variant of LockTestFlag that returns without looking at the peer's flag.
LockTestFlag_NoCheck(id) ==
    /\ pc[id] = "L58"
    /\ pc' = [pc EXCEPT ![id] = "L104"]
    /\ peerAt' = [peerAt EXCEPT ![id] = "none"]
    /\ UNCHANGED <<flag, turn, shared_counter, in_critical_section, i, old_val,
                   violated, result>>
    /\ hist' = HistReturn(id, hist)
    /\ UNCHANGED misuse

\* dekker_lock: while (flag[other].load()); on false the function returns.
LockTestFlag(id) ==
    /\ pc[id] = "L58"
    /\ IF flag[Other(id)]
         THEN /\ pc' = [pc EXCEPT ![id] = "L59"]
              /\ UNCHANGED peerAt
         ELSE /\ pc' = [pc EXCEPT ![id] = "L104"]
              /\ peerAt' = [peerAt EXCEPT ![id] = "none"]
    /\ UNCHANGED <<flag, turn, shared_counter, in_critical_section, i, old_val,
                   violated, result>>
    /\ hist' = IF flag[Other(id)] THEN HistRead(id)
                ELSE HistReturn(id, HistRead(id))
    /\ UNCHANGED misuse

\* Variant of LockTestTurn with the comparison inverted.
LockTestTurn_Inverted(id) ==
    /\ pc[id] = "L59"
    /\ pc' = [pc EXCEPT ![id] = IF turn = id THEN "L60" ELSE "L58"]
    /\ UNCHANGED <<flag, turn, shared_counter, in_critical_section, i, old_val,
                   violated, result, peerAt>>
    /\ hist' = HistTurnRead(id)
    /\ UNCHANGED misuse

\* dekker_lock: if (turn.load() != id) ... else yield and test the flag again.
LockTestTurn(id) ==
    /\ pc[id] = "L59"
    /\ pc' = [pc EXCEPT ![id] = IF turn # id THEN "L60" ELSE "L58"]
    /\ UNCHANGED <<flag, turn, shared_counter, in_critical_section, i, old_val,
                   violated, result, peerAt>>
    /\ hist' = HistTurnRead(id)
    /\ UNCHANGED misuse

\* dekker_lock: the turn.load() inside the "Not my turn" message.
LockPrintTurn(id) ==
    /\ pc[id] = "L60"
    /\ pc' = [pc EXCEPT ![id] = "L61"]
    /\ UNCHANGED <<flag, turn, shared_counter, in_critical_section, i, old_val,
                   violated, result, peerAt>>
    /\ UNCHANGED <<hist, misuse>>

\* Variant of LockLower that keeps the flag raised while backing off.
LockLower_KeepRaised(id) ==
    /\ pc[id] = "L61"
    /\ pc' = [pc EXCEPT ![id] = "L64"]
    /\ UNCHANGED <<flag, turn, shared_counter, in_critical_section, i, old_val,
                   violated, result, peerAt>>
    /\ hist' = HistLower(id)
    /\ UNCHANGED misuse

\* Variant of LockLower that lowers the peer's flag instead of its own.
LockLower_PeerFlag(id) ==
    /\ pc[id] = "L61"
    /\ flag' = [flag EXCEPT ![Other(id)] = FALSE]
    /\ pc' = [pc EXCEPT ![id] = "L64"]
    /\ UNCHANGED <<turn, shared_counter, in_critical_section, i, old_val,
                   violated, result, peerAt>>
    /\ hist' = HistLower(id)
    /\ UNCHANGED misuse

\* dekker_lock: flag[id].store(false), the back-off.
LockLower(id) ==
    /\ pc[id] = "L61"
    /\ flag' = [flag EXCEPT ![id] = FALSE]
    /\ pc' = [pc EXCEPT ![id] = "L64"]
    /\ UNCHANGED <<turn, shared_counter, in_critical_section, i, old_val,
                   violated, result, peerAt>>
    /\ hist' = HistLower(id)
    /\ UNCHANGED misuse

\* Variant of LockAwaitTurn that does not wait for the turn.
LockAwaitTurn_NoWait(id) ==
    /\ pc[id] = "L64"
    /\ pc' = [pc EXCEPT ![id] = "L69"]
    /\ UNCHANGED <<flag, turn, shared_counter, in_critical_section, i, old_val,
                   violated, result, peerAt>>
    /\ UNCHANGED <<hist, misuse>>

\* dekker_lock: while (turn.load() != id) yield;
LockAwaitTurn(id) ==
    /\ pc[id] = "L64"
    /\ pc' = [pc EXCEPT ![id] = IF turn # id THEN "L64" ELSE "L69"]
    /\ UNCHANGED <<flag, turn, shared_counter, in_critical_section, i, old_val,
                   violated, result, peerAt>>
    /\ UNCHANGED <<hist, misuse>>

\* Variant of LockReraise that proceeds into the critical section as soon as
\* the turn is back, without testing the peer's flag again.
LockReraise_Enter(id) ==
    /\ pc[id] = "L69"
    /\ flag' = [flag EXCEPT ![id] = TRUE]
    /\ pc' = [pc EXCEPT ![id] = "L104"]
    /\ peerAt' = [peerAt EXCEPT ![id] = "none"]
    /\ UNCHANGED <<turn, shared_counter, in_critical_section, i, old_val,
                   violated, result>>
    /\ hist' = HistReturn(id, HistReraise(id))
    /\ UNCHANGED misuse

\* dekker_lock: flag[id].store(true) after the turn came back.
LockReraise(id) ==
    /\ pc[id] = "L69"
    /\ flag' = [flag EXCEPT ![id] = TRUE]
    /\ pc' = [pc EXCEPT ![id] = "L58"]
    /\ UNCHANGED <<turn, shared_counter, in_critical_section, i, old_val,
                   violated, result, peerAt>>
    /\ hist' = HistReraise(id)
    /\ UNCHANGED misuse

\* int cs_count = ++in_critical_section; if (cs_count > 1) std::cerr << ...
SectionEnter(id) ==
    /\ pc[id] = "L104"
    /\ in_critical_section' = in_critical_section + 1
    /\ violated' = (violated \/ in_critical_section + 1 > 1)
    /\ pc' = [pc EXCEPT ![id] = "L110"]
    /\ UNCHANGED <<flag, turn, shared_counter, i, old_val, result, peerAt>>
    /\ UNCHANGED <<hist, misuse>>

\* int old_val = shared_counter.load();
SectionRead(id) ==
    /\ pc[id] = "L110"
    /\ old_val' = [old_val EXCEPT ![id] = shared_counter]
    /\ pc' = [pc EXCEPT ![id] = "L116"]
    /\ UNCHANGED <<flag, turn, shared_counter, in_critical_section, i,
                   violated, result, peerAt>>
    /\ UNCHANGED <<hist, misuse>>

\* int new_val = old_val + 1; shared_counter.store(new_val);
SectionWrite(id) ==
    /\ pc[id] = "L116"
    /\ shared_counter' = old_val[id] + 1
    /\ pc' = [pc EXCEPT ![id] = "L119"]
    /\ UNCHANGED <<flag, turn, in_critical_section, i, old_val, violated,
                   result, peerAt>>
    /\ UNCHANGED <<hist, misuse>>

\* --in_critical_section;
SectionLeave(id) ==
    /\ pc[id] = "L119"
    /\ in_critical_section' = in_critical_section - 1
    /\ pc' = [pc EXCEPT ![id] = "L83"]
    /\ UNCHANGED <<flag, turn, shared_counter, i, old_val, violated, result,
                   peerAt>>
    /\ UNCHANGED <<hist, misuse>>

\* Variant of UnlockTurn that leaves the turn where it is.
UnlockTurn_NoPass(id) ==
    /\ pc[id] = "L83"
    /\ pc' = [pc EXCEPT ![id] = "L84"]
    /\ UNCHANGED <<flag, turn, shared_counter, in_critical_section, i, old_val,
                   violated, result, peerAt>>
    /\ hist' = HistBypass(hist)
    /\ UNCHANGED misuse

\* Variant of UnlockTurn that stores the releaser's own identity.
UnlockTurn_Self(id) ==
    /\ pc[id] = "L83"
    /\ turn' = id
    /\ pc' = [pc EXCEPT ![id] = "L84"]
    /\ UNCHANGED <<flag, shared_counter, in_critical_section, i, old_val,
                   violated, result, peerAt>>
    /\ hist' = HistBypass(hist)
    /\ UNCHANGED misuse

\* Variant of UnlockTurn that hands the turn over only once the peer's flag
\* is down.
UnlockTurn_Wait(id) ==
    /\ pc[id] = "L83"
    /\ IF flag[Other(id)]
         THEN UNCHANGED <<turn, pc>>
         ELSE /\ turn' = Other(id)
              /\ pc' = [pc EXCEPT ![id] = "L84"]
    /\ UNCHANGED <<flag, shared_counter, in_critical_section, i, old_val,
                   violated, result, peerAt>>
    /\ hist' = IF flag[Other(id)] THEN hist ELSE HistTurnStored(id)
    /\ UNCHANGED misuse

\* Variant of UnlockTurn with the two stores of dekker_unlock swapped: the flag
\* goes down first.
UnlockTurn_FlagFirst(id) ==
    /\ pc[id] = "L83"
    /\ flag' = [flag EXCEPT ![id] = FALSE]
    /\ pc' = [pc EXCEPT ![id] = "L84"]
    /\ UNCHANGED <<turn, shared_counter, in_critical_section, i, old_val,
                   violated, result, peerAt>>
    /\ hist' = HistBypass(hist)
    /\ UNCHANGED misuse

\* dekker_unlock: turn.store(other)
UnlockTurn(id) ==
    /\ pc[id] = "L83"
    /\ turn' = Other(id)
    /\ pc' = [pc EXCEPT ![id] = "L84"]
    /\ UNCHANGED <<flag, shared_counter, in_critical_section, i, old_val,
                   violated, result, peerAt>>
    /\ hist' = HistTurnStored(id)
    /\ UNCHANGED misuse

\* Variant of UnlockFlag that leaves the flag raised.
UnlockFlag_KeepRaised(id) ==
    /\ pc[id] = "L84"
    /\ pc' = [pc EXCEPT ![id] = "L127"]
    /\ peerAt' = [peerAt EXCEPT ![Other(id)] =
                     IF InLock(Other(id)) THEN pc[Other(id)] ELSE "none"]
    /\ UNCHANGED <<flag, turn, shared_counter, in_critical_section, i, old_val,
                   violated, result>>
    /\ hist' = HistUnlocked(id, hist)
    /\ UNCHANGED misuse

\* dekker_unlock: flag[id].store(false); the function returns.
UnlockFlag(id) ==
    /\ pc[id] = "L84"
    /\ flag' = [flag EXCEPT ![id] = FALSE]
    /\ pc' = [pc EXCEPT ![id] = "L127"]
    /\ peerAt' = [peerAt EXCEPT ![Other(id)] =
                     IF InLock(Other(id)) THEN pc[Other(id)] ELSE "none"]
    /\ UNCHANGED <<turn, shared_counter, in_critical_section, i, old_val,
                   violated, result>>
    /\ hist' = HistUnlocked(id, HistFlagLowered(id))
    /\ UNCHANGED misuse

\* Remainder section, then i++.
Remainder(id) ==
    /\ pc[id] = "L127"
    /\ i' = [i EXCEPT ![id] = i[id] + 1]
    /\ pc' = [pc EXCEPT ![id] = "L97"]
    /\ UNCHANGED <<flag, turn, shared_counter, in_critical_section, old_val,
                   violated, result, peerAt>>
    /\ UNCHANGED <<hist, misuse>>

\* main: t0.join(); t1.join(); if (shared_counter == NUM_ITERATIONS * 2) ...
MainReport ==
    /\ result = "running"
    /\ \A t \in Threads : Finished(t)
    /\ result' = IF shared_counter = NUM_ITERATIONS * 2 THEN "verified" ELSE "error"
    /\ UNCHANGED <<flag, turn, shared_counter, in_critical_section, pc, i,
                   old_val, violated>>
    /\ UNCHANGED <<hist, misuse>>
    /\ UNCHANGED peerAt

\* A call dekker_unlock(id, o) that thread_function does not make: by a thread
\* at the top of its loop, which does not hold the section, or, in place of
\* the call on line 123, with o different from 1 - id.
MisuseCall(id, o) ==
    /\ misuse.calls < MaxMisuse
    /\ \/ pc[id] = "L97"
       \/ pc[id] = "L83" /\ o # Other(id)
    /\ pc' = [pc EXCEPT ![id] = "M83"]
    /\ misuse' = [other |-> [misuse.other EXCEPT ![id] = o],
                  ret |-> [misuse.ret EXCEPT ![id] =
                              IF pc[id] = "L97" THEN "L97" ELSE "L127"],
                  calls |-> misuse.calls + 1]
    /\ UNCHANGED <<flag, turn, shared_counter, in_critical_section, i, old_val,
                   violated, result, peerAt, hist>>

\* dekker_unlock in such a call: turn.store(other)
MisuseTurn(id) ==
    /\ pc[id] = "M83"
    /\ turn' = misuse.other[id]
    /\ pc' = [pc EXCEPT ![id] = "M84"]
    /\ UNCHANGED <<flag, shared_counter, in_critical_section, i, old_val,
                   violated, result, peerAt, hist, misuse>>

\* dekker_unlock in such a call: flag[id].store(false); the function returns.
MisuseFlag(id) ==
    /\ pc[id] = "M84"
    /\ flag' = [flag EXCEPT ![id] = FALSE]
    /\ pc' = [pc EXCEPT ![id] = misuse.ret[id]]
    /\ UNCHANGED <<turn, shared_counter, in_critical_section, i, old_val,
                   violated, result, peerAt, hist, misuse>>

\* All steps of thread_function(id).
thread_function(id) ==
    \/ LoopTest(id)
    \/ LockRaise(id)
    \/ LockContention(id)
    \/ LockTestFlag(id)
    \/ LockTestTurn(id)
    \/ LockPrintTurn(id)
    \/ LockLower(id)
    \/ LockAwaitTurn(id)
    \/ LockReraise(id)
    \/ SectionEnter(id)
    \/ SectionRead(id)
    \/ SectionWrite(id)
    \/ SectionLeave(id)
    \/ UnlockTurn(id)
    \/ UnlockFlag(id)
    \/ Remainder(id)

Next ==
    \/ \E id \in Threads : thread_function(id)
    \/ MainReport

Spec == Init /\ [][Next]_vars

\* The program with up to MaxMisuse calls of dekker_unlock outside the
\* discipline of thread_function.
MisuseNext ==
    \/ Next
    \/ \E id \in Threads, o \in Threads : MisuseCall(id, o)
    \/ \E id \in Threads : MisuseTurn(id)
    \/ \E id \in Threads : MisuseFlag(id)

MisuseSpec == Init /\ [][MisuseNext]_vars

\* Both threads and main keep being scheduled.
FairSpec == Spec /\ (\A id \in Threads : WF_vars(thread_function(id))) /\ WF_vars(MainReport)

(***************************************************************************)
(* Properties                                                              *)
(***************************************************************************)

\* C1: mutual exclusion: the two threads are never both between the return
\* of dekker_lock and the final store of dekker_unlock, in_critical_section
\* never exceeds 1 and line 106 is never executed.
MutualExclusion ==
    /\ ~(InSection(0) /\ InSection(1))
    /\ in_critical_section <= 1
    /\ violated = FALSE

\* One thread is in the critical work while the other contends with its flag
\* raised.
MutualExclusionWitness ==
    /\ pc[0] = "L116"
    /\ pc[1] = "L59"
    /\ flag[1]

\* C2: no lost update: when both threads have finished, shared_counter is
\* 2 * NUM_ITERATIONS, and main never reports a race.
NoLostUpdate ==
    /\ (Finished(0) /\ Finished(1)) => shared_counter = 2 * NUM_ITERATIONS
    /\ result # "error"

NoLostUpdateWitness ==
    /\ result = "verified"
    /\ shared_counter = 2 * NUM_ITERATIONS

\* C3: termination: under weak fairness every run reaches the state where
\* both threads are finished, and a thread inside dekker_lock whose peer has
\* already finished finishes too.
Termination ==
    /\ <>(Finished(0) /\ Finished(1))
    /\ \A id \in Threads :
         (InLock(id) /\ Finished(Other(id))) ~> Finished(id)

\* A thread is still inside dekker_lock with iterations left after its peer
\* has finished.
TerminationWitness ==
    /\ Finished(0)
    /\ InLock(1)
    /\ i[1] < NUM_ITERATIONS - 1

\* C4: starvation freedom: under weak fairness every call of dekker_lock
\* returns.
StarvationFreedom ==
    \A id \in Threads : InLock(id) ~> (pc[id] = "L104")

\* A thread that backed off returns from dekker_lock after its peer has
\* completed more iterations than it has.
StarvationFreedomWitness ==
    /\ pc[1] = "L104"
    /\ i[0] > i[1] + 1
    /\ InLock(0)

\* C5: turn alternation: when thread id completes dekker_unlock the turn is
\* 1 - id, and a turn of 1 - id changes only by the turn store of the
\* dekker_unlock of thread 1 - id.
TurnAlternation ==
    [][\A id \in Threads :
         /\ (pc[id] = "L84" /\ pc'[id] = "L127") => turn' = Other(id)
         /\ (turn = Other(id) /\ turn' # Other(id)) =>
               (pc[Other(id)] = "L83" /\ pc'[Other(id)] = "L84")]_vars

\* Thread 0 has completed dekker_unlock, the turn is 1 and thread 1 is
\* inside dekker_lock.
TurnAlternationWitness ==
    /\ pc[0] = "L127"
    /\ turn = 1
    /\ InLock(1)

\* Positions inside dekker_lock after the first store of the flag: the thread
\* has declared its intent and has not returned.
WaitingPcs == LockPcs \ {"L49"}

\* C6 as stated: if the peer was waiting inside dekker_lock when thread id
\* completed dekker_unlock, thread id is not in the critical section again
\* before the peer has entered it.  Waiting is read narrowly here (the peer
\* has already stored its flag once); a violation of this reading is a
\* violation of the reading that counts from the call of dekker_lock.
NoReacquirePastWaitingPeer ==
    \A id \in Threads : peerAt[Other(id)] \in WaitingPcs => ~InSection(id)

\* C6 amended: if the peer was inside dekker_lock with its flag raised, at
\* the contention read or in the outer loop (lines 52, 58, 59), when thread id
\* completed dekker_unlock, thread id is not in the critical section again
\* before the peer has entered it.
NoReacquirePastRaisedPeer ==
    \A id \in Threads : peerAt[Other(id)] \in OuterLoopPcs => ~InSection(id)

\* Thread 1 was in the outer loop when thread 0 released; thread 0 came back
\* and had to back off.
NoReacquirePastRaisedPeerWitness ==
    /\ peerAt[1] \in OuterLoopPcs
    /\ pc[0] = "L64"

\* C7: progress of the turn holder: when both threads are inside dekker_lock
\* and turn = id, thread id eventually returns from dekker_lock.
TurnHolderProgress ==
    \A id \in Threads :
        (InLock(0) /\ InLock(1) /\ turn = id) ~> (pc[id] = "L104")

\* Both threads are in the outer loop with flags raised and the turn is 1.
TurnHolderProgressWitness ==
    /\ pc[0] \in {"L58", "L59"}
    /\ pc[1] \in {"L58", "L59"}
    /\ flag[0]
    /\ flag[1]
    /\ turn = 1

\* C8: write ownership: flag[id] changes only in a step of thread id, turn
\* changes only in the turn store of dekker_unlock and then to the identity
\* of the thread that is not releasing, and turn is always 0 or 1.
WriteOwnership ==
    /\ [](turn \in Threads)
    /\ [][\A id \in Threads :
            /\ flag'[id] # flag[id] =>
                  (pc'[id] # pc[id] /\ pc'[Other(id)] = pc[Other(id)])
            /\ (pc'[id] # pc[id] /\ turn' # turn) =>
                  (pc[id] = "L83" /\ pc'[id] = "L84" /\ turn' = Other(id))
            /\ turn' # turn => \E t \in Threads : pc'[t] # pc[t]]_vars

\* The turn has been handed to thread 1, which now holds its flag alone.
WriteOwnershipWitness ==
    /\ turn = 1
    /\ flag[1]
    /\ ~flag[0]
    /\ pc[1] = "L110"

\* C9: flag honesty: a thread in the inner wait (line 64) has its flag down,
\* it leaves the inner wait only on reading turn = id, and when it raises the
\* flag again (line 69) the turn is its own.
FlagHonesty ==
    /\ [](\A id \in Threads :
            /\ pc[id] = "L64" => ~flag[id]
            /\ pc[id] = "L69" => (~flag[id] /\ turn = id))
    /\ [][\A id \in Threads :
            /\ (pc[id] = "L64" /\ pc'[id] # "L64") =>
                  (turn = id /\ pc'[id] = "L69" /\ flag' = flag)
            /\ (InLock(id) /\ ~flag[id] /\ flag'[id]) =>
                  (pc[id] \in {"L49", "L69"})]_vars

\* Thread 1 waits for the turn with its flag down while thread 0 holds the
\* section.
FlagHonestyWitness ==
    /\ pc[1] = "L64"
    /\ turn = 0
    /\ InSection(0)

\* C10: unlock never waits: a thread in dekker_unlock can always take its
\* next step, that step is the turn store (line 83) and then the flag store
\* (line 84) whatever the peer has written, and the thread leaves
\* dekker_unlock.
UnlockNeverWaits ==
    /\ [](\A id \in Threads :
            pc[id] \in {"L83", "L84"} => ENABLED <<thread_function(id)>>_vars)
    /\ [][\A id \in Threads :
            /\ (pc[id] = "L83" /\ pc'[id] # "L83") =>
                  (pc'[id] = "L84" /\ turn' = Other(id) /\ flag' = flag)
            /\ (pc[id] = "L84" /\ pc'[id] # "L84") =>
                  (pc'[id] = "L127" /\ flag' = [flag EXCEPT ![id] = FALSE]
                     /\ turn' = turn)]_vars
    /\ \A id \in Threads : (pc[id] = "L83") ~> (pc[id] = "L127")

\* Thread 0 has left dekker_unlock while thread 1, backed off, still waits
\* for the turn it was just given.
UnlockNeverWaitsWitness ==
    /\ pc[0] = "L127"
    /\ pc[1] = "L64"
    /\ turn = 1

\* C17: the holder's flag stays raised: a thread between the return of
\* dekker_lock and the final store of dekker_unlock has flag[id] = TRUE.
HolderFlagRaised ==
    \A id \in Threads : InSection(id) => flag[id]

\* Thread 1 has stored the turn in dekker_unlock and still holds its flag
\* while thread 0 is inside dekker_lock.
HolderFlagRaisedWitness ==
    /\ pc[1] = "L84"
    /\ flag[1]
    /\ InLock(0)

\* The loop conditions that keep a thread inside dekker_lock: the outer loop
\* goes on spinning (flag[other] is raised and the turn is the thread's own),
\* or the inner wait goes on (the turn is not the thread's own).
WaitUnsatisfied(id) ==
    \/ pc[id] \in {"L58", "L59"} /\ flag[Other(id)] /\ turn = id
    \/ pc[id] = "L64" /\ turn # id

\* C15: deadlock freedom: in no reachable state are both threads inside
\* dekker_lock with both wait conditions unsatisfied.
DeadlockFreedom ==
    ~(InLock(0) /\ InLock(1) /\ WaitUnsatisfied(0) /\ WaitUnsatisfied(1))

\* Both threads are inside dekker_lock, thread 0 spins in the outer loop with
\* the turn and thread 1 has backed off and lowered its flag.
DeadlockFreedomWitness ==
    /\ pc[0] \in {"L58", "L59"}
    /\ turn = 0
    /\ pc[1] = "L64"
    /\ ~flag[1]

\* Both threads are at the outer loop-condition read with their flags raised
\* and the turn is t.
TieState(t) ==
    /\ pc[0] = "L58"
    /\ pc[1] = "L58"
    /\ flag[0]
    /\ flag[1]
    /\ turn = t

\* Thread t is in the outer loop with its flag raised and the turn, and its
\* peer is inside dekker_lock.
HoldsPriority(t) ==
    /\ pc[t] \in {"L58", "L59"}
    /\ flag[t]
    /\ turn = t
    /\ InLock(Other(t))

\* C14: tie-break priority: a state with both threads at the outer
\* loop-condition read, both flags raised and turn = t is a state in which t
\* holds priority; while t holds priority its peer does not return from
\* dekker_lock, and t holds priority until t itself returns from dekker_lock.
\* So the next thread to enter the critical section is t.
TieBreakPriority ==
    /\ [](\A t \in Threads : TieState(t) => HoldsPriority(t))
    /\ [][\A t \in Threads :
            HoldsPriority(t) =>
               /\ pc'[Other(t)] # "L104"
               /\ (HoldsPriority(t)' \/ pc'[t] = "L104")]_vars

\* Both threads are at line 58 with both flags raised.
TieBreakPriorityWitness ==
    TieState(1)

\* C12: back-off ordering: a thread that has read flag[other] raised and then
\* turn # id lowers its flag, and when it is in the critical section after
\* that, the peer has since executed line 83 and then line 84, and the thread
\* has executed line 69.
BackoffOrdering ==
    \A id \in Threads :
        hist[id].stage # "none" =>
            /\ pc[id] \in {"L60", "L61"} \/ hist[id].backoffs >= 1
            /\ pc[id] \in {"L64", "L69"} => ~flag[id]
            /\ InSection(id) =>
                  (hist[id].stage = "unlocked" /\ hist[id].reraised)

\* Thread 1 returns from dekker_lock after a back-off.
BackoffOrderingWitness ==
    /\ pc[1] = "L104"
    /\ hist[1].stage = "unlocked"
    /\ hist[1].reraised
    /\ hist[1].backoffs = 1

\* The phase of a thread's cycle.
Phase(p) ==
    CASE p = "L97" -> "loop"
      [] p \in LockPcs -> "lock"
      [] p \in {"L104", "L110", "L116", "L119"} -> "critical"
      [] p \in {"L83", "L84"} -> "unlock"
      [] p = "L127" -> "remainder"
      [] p = "L130" -> "finished"
      [] OTHER -> "misuse"

\* The order of the phases in thread_function.
PhaseOrder ==
    {<<"loop", "lock">>, <<"lock", "critical">>, <<"critical", "unlock">>,
     <<"unlock", "remainder">>, <<"remainder", "loop">>, <<"loop", "finished">>}

\* C13: cycle discipline: the phases follow each other in the order lock,
\* critical work, unlock, remainder; dekker_unlock has returned once per
\* return of dekker_lock; a finished thread has done both NUM_ITERATIONS
\* times, stays finished and writes nothing.
CycleDiscipline ==
    /\ [](\A id \in Threads :
            /\ hist[id].locks =
                  i[id] + (IF InSection(id) \/ pc[id] = "L127" THEN 1 ELSE 0)
            /\ hist[id].unlocks = i[id] + (IF pc[id] = "L127" THEN 1 ELSE 0)
            /\ Finished(id) => (/\ hist[id].locks = NUM_ITERATIONS
                                /\ hist[id].unlocks = NUM_ITERATIONS))
    /\ [][\A id \in Threads :
            /\ Phase(pc'[id]) # Phase(pc[id]) =>
                  <<Phase(pc[id]), Phase(pc'[id])>> \in PhaseOrder
            /\ Finished(id) =>
                  /\ pc'[id] = pc[id]
                  /\ flag'[id] = flag[id]
                  /\ <<flag, turn, in_critical_section, shared_counter>>'
                        # <<flag, turn, in_critical_section, shared_counter>>
                       => pc'[Other(id)] # pc[Other(id)]]_vars

\* Thread 0 has finished after NUM_ITERATIONS cycles while thread 1 is in the
\* critical section.
CycleDisciplineWitness ==
    /\ Finished(0)
    /\ hist[0].unlocks = NUM_ITERATIONS
    /\ pc[1] = "L116"

\* C16: entry only after a fresh check: a thread that has returned from
\* dekker_lock has its flag raised and the last value of flag[other] it read
\* since it last raised the flag is false; after line 69 it goes back to the
\* test on line 58.
FreshCheck ==
    /\ [](\A id \in Threads :
            InSection(id) => (hist[id].lastRead = "false" /\ flag[id]))
    /\ [][\A id \in Threads :
            (pc[id] = "L69" /\ pc'[id] # "L69") =>
                (pc'[id] = "L58" /\ hist'[id].lastRead = "none")]_vars

\* Thread 1 enters after a back-off and a new test of flag[0].
FreshCheckWitness ==
    /\ pc[1] = "L104"
    /\ hist[1].reraised
    /\ hist[1].lastRead = "false"

\* C18: at most one back-off per acquisition: line 61 is executed at most
\* once in a call of dekker_lock.
AtMostOneBackoff ==
    \A id \in Threads : hist[id].backoffs <= 1

\* Thread 0 is back in the outer loop after its back-off while thread 1 still
\* has its flag raised.
AtMostOneBackoffWitness ==
    /\ pc[0] = "L59"
    /\ hist[0].backoffs = 1
    /\ flag[1]

\* C19 as stated: from a state with thread id inside dekker_lock, flag[id]
\* raised and turn = id, the peer enters the critical section at most once
\* more before thread id enters.
BoundedBypass ==
    \A id \in Threads : hist[id].bypassAny <= 1

\* C19 amended: from a state with thread id on line 52, 58 or 59 (flag[id]
\* raised, no back-off pending) and turn = id, the peer does not enter the
\* critical section before thread id enters.
BoundedBypassOuter ==
    \A id \in Threads : hist[id].bypassOuter <= 0

\* Thread 1 holds the turn in the outer loop while thread 0 has come back and
\* backed off.
BoundedBypassOuterWitness ==
    /\ hist[1].bypassOuter = 0
    /\ pc[1] \in {"L58", "L59"}
    /\ pc[0] = "L64"

\* C11: misuse is an error: a call of dekker_unlock by a thread that does not
\* hold the section, or with other # 1 - id, stores neither turn nor a flag
\* and does not return normally.
MisuseIsError ==
    [][\A id \in Threads :
         (pc[id] \in MisusePcs /\ pc'[id] # pc[id]) =>
             /\ turn' = turn
             /\ flag' = flag
             /\ pc'[id] \notin {"L97", "L127"}]_vars

====
